---------------------------- MODULE Spec2Model ----------------------------
(***************************************************************************)
(* The genetic-algorithm engine of Tarea2/src/GeneticAlgorithm.py as a     *)
(* state machine.  Spec follows whole runs: construction (__init__), the   *)
(* generation loop of simulate, one offspring per step of __reproduce.     *)
(* SpecConstruct follows every constructor call, the invalid ones          *)
(* included.  SpecOffspring follows one call of __produce_offspring step   *)
(* by step: parent selection, crossover, mutation.                         *)
(* SpecContract follows whole runs in viable mode with a viable_crossover  *)
(* that returns a child shorter than its parents.                          *)
(*                                                                         *)
(* Indices are 1-based here (Python index j is j+1); 0 stands for None in  *)
(* the slots max_1, max_2, parent_1, parent_2.  Probabilities are counted  *)
(* in units of 1/Scale: a uniform draw of np.random.random() is one of     *)
(* 0 .. Scale-1 and the mutation rate 1.0 is Scale.                        *)
(***************************************************************************)
EXTENDS Integers, Sequences, FiniteSets

VARIABLES
    pop_size, mutation_rate, max_iter,      \* constructor arguments kept as fields
    check,                                  \* individual_viability_check
    absent,                                 \* viability members passed as None
    indLen,                                 \* length of what the factories return
    population, population_fitness,         \* the engine's state
    factoryCalls, viableFactoryCalls,       \* calls made to the two factories
    pc, err,                                \* position in the program, error raised
    i, halt,                                \* generation counter, why the loop ended
    best_individual_data, worst_individual_data,
    generation_average_data, historic_best_individual,
    total_fitness, new_population,          \* locals of __reproduce
    selMode, k, max_1, max_2,               \* locals of the selection
    parent_1, parent_2, child,              \* locals of __produce_offspring
    childOf,                                \* the individual of the population the
                                            \* list named child is, 0 for a new list
    targets,                                \* the two roulette targets drawn
    first, drawn                            \* the first tournament participant, and
                                            \* how often each index has been drawn

config == <<pop_size, mutation_rate, max_iter, check, absent, indLen>>
series == <<best_individual_data, worst_individual_data,
            generation_average_data, historic_best_individual>>
locals == <<selMode, k, max_1, max_2, parent_1, parent_2, child, childOf>>
probe  == <<targets, first, drawn>>
calls  == <<factoryCalls, viableFactoryCalls>>

vars == <<config, population, population_fitness, calls, pc, err, i, halt,
          series, total_fitness, new_population, locals, probe>>

---------------------------------------------------------------------------
(* Bounds of the model *)

MaxPop  == 2      \* pop_size ranges over 0 .. MaxPop
MaxIter == 2      \* max_iter ranges over 0 .. MaxIter
MaxLen  == 4      \* individuals have 2 .. MaxLen genes
MaxGenes == 7     \* pop_size * (genes per individual) is at most MaxGenes
                  \* in the runs of simulate that are followed
OffspringGenes == 8    \* the same, where one call of __produce_offspring
                       \* is followed step by step
Scale   == 2      \* probabilities are multiples of 1/Scale

(* Program constant: the number of tournament participants (line 125). *)
TournamentSize == 8

---------------------------------------------------------------------------
(* The collaborators handed to the constructor *)

Genes == {-1, 1}

Lengths == 2 .. MaxLen

Members == {"individual_viability_condition", "viable_mutation",
            "viable_crossover", "viable_individual_factory"}

RECURSIVE SumSeq(_)
SumSeq(s) == IF s = <<>> THEN 0 ELSE s[1] + SumSeq(Tail(s))

(* fitness_function: the sum of the genes *)
fitness_function(individual) == SumSeq(individual)

(* termination_condition: applied to a fitness value; the threshold leaves
   populations with different non-negative fitness values running *)
termination_condition(value) == value >= 3

(* mutate: takes a gene and returns a different gene *)
mutate(gene) == -gene

(* individual_viability_condition: the first gene is 1 *)
individual_viability_condition(individual) == individual[1] = 1

(* viable_mutation: the new gene when the individual stays viable with it,
   otherwise the same gene *)
viable_mutation(individual, index) ==
    IF individual_viability_condition([individual EXCEPT ![index] = -individual[index]])
    THEN -individual[index]
    ELSE individual[index]

(* viable_crossover: a viable offspring made of the two parents *)
viable_crossover(p1, p2) ==
    [j \in 1 .. Len(p1) |-> IF j = 1 \/ j > Len(p2) THEN p1[j] ELSE p2[j]]

(* individual_factory / viable_individual_factory: what one call may return *)
individual_factory(len) == [1 .. len -> Genes]

viable_individual_factory(len) ==
    {ind \in [1 .. len -> Genes] : individual_viability_condition(ind)}

---------------------------------------------------------------------------
(* Initial states: the arguments of a constructor call that has not run yet *)

NoSeries ==
    /\ best_individual_data = <<>>
    /\ worst_individual_data = <<>>
    /\ generation_average_data = <<>>
    /\ historic_best_individual = <<>>

NoLocals ==
    /\ selMode = "none" /\ k = 0 /\ max_1 = 0 /\ max_2 = 0
    /\ parent_1 = 0 /\ parent_2 = 0 /\ child = <<>> /\ childOf = 0

NotStarted ==
    /\ population = <<>> /\ population_fitness = <<>>
    /\ factoryCalls = 0 /\ viableFactoryCalls = 0
    /\ pc = "new" /\ err = "" /\ i = 0 /\ halt = ""
    /\ NoSeries
    /\ total_fitness = 0 /\ new_population = <<>>
    /\ NoLocals
    /\ targets = <<>> /\ first = 0 /\ drawn = <<>>

(* Every constructor call, the invalid ones included *)
InitAny ==
    /\ pop_size \in 0 .. MaxPop
    /\ mutation_rate \in -1 .. Scale + 1
    /\ max_iter \in {0, MaxIter}
    /\ check \in BOOLEAN
    /\ absent \in SUBSET Members
    /\ indLen \in {len \in Lengths : pop_size * len <= MaxGenes}
    /\ NotStarted

(* The calls whose runs are followed: the viability members are all given
   in viable mode and left at their default None otherwise *)
Init ==
    /\ pop_size \in 0 .. MaxPop
    /\ mutation_rate \in {0, Scale}
    /\ max_iter \in {0, 1, MaxIter}
    /\ check \in BOOLEAN
    /\ absent = IF check THEN {} ELSE Members
    /\ indLen \in {len \in Lengths : pop_size * len <= MaxGenes}
    /\ NotStarted

---------------------------------------------------------------------------
(* __init__ *)

MissingMemberForgetsCrossover(chk, abs) ==
    IF ~chk THEN ""
    ELSE IF "individual_viability_condition" \in abs THEN "individual_viability_condition"
    ELSE IF "viable_mutation" \in abs THEN "viable_mutation"
    ELSE IF "viable_individual_factory" \in abs THEN "viable_individual_factory"
    ELSE ""

(* lines 65-73: the member named by the NotImplementedError, "" when none
   is raised *)
MissingMember(chk, abs) ==
    IF ~chk THEN ""
    ELSE IF "individual_viability_condition" \in abs THEN "individual_viability_condition"
    ELSE IF "viable_mutation" \in abs THEN "viable_mutation"
    ELSE IF "viable_crossover" \in abs THEN "viable_crossover"
    ELSE IF "viable_individual_factory" \in abs THEN "viable_individual_factory"
    ELSE ""

UsesViableFactoryNever(chk) == FALSE

(* line 79: which factory builds the initial population *)
UsesViableFactory(chk) == chk

(* len(range(n)) *)
RangeLen(n) == IF n > 0 THEN n ELSE 0

Construct ==
    /\ pc = "new"
    /\ IF MissingMember(check, absent) # ""
       THEN /\ pc' = "failed"
            /\ err' = MissingMember(check, absent)
            /\ UNCHANGED <<population, calls>>
       ELSE /\ pc' = "ready"
            /\ err' = ""
            /\ IF UsesViableFactory(check)
               THEN /\ population' \in [1 .. RangeLen(pop_size) -> viable_individual_factory(indLen)]
                    /\ viableFactoryCalls' = RangeLen(pop_size)
                    /\ factoryCalls' = factoryCalls
               ELSE /\ population' \in [1 .. RangeLen(pop_size) -> individual_factory(indLen)]
                    /\ factoryCalls' = RangeLen(pop_size)
                    /\ viableFactoryCalls' = viableFactoryCalls
    /\ population_fitness' = <<>>
    /\ UNCHANGED <<config, i, halt, series, total_fitness, new_population, locals, probe>>

SpecConstruct == InitAny /\ [][Construct]_vars

---------------------------------------------------------------------------
(* simulate: the generation loop *)

(* __evaluate, lines 94-96 *)
Evaluate(pop) == [j \in 1 .. Len(pop) |-> fitness_function(pop[j])]

(* np.max, np.min, np.argmax (the first index of the maximum), np.average
   (kept exact, as the pair <<sum, count>>); all on a non-empty vector *)
MaxOf(f) == CHOOSE v \in {f[j] : j \in 1 .. Len(f)} : \A j \in 1 .. Len(f) : f[j] <= v

MinOf(f) == CHOOSE v \in {f[j] : j \in 1 .. Len(f)} : \A j \in 1 .. Len(f) : f[j] >= v

ArgMax(f) == CHOOSE j \in 1 .. Len(f) :
                /\ f[j] = MaxOf(f)
                /\ \A m \in 1 .. j - 1 : f[m] # MaxOf(f)

Average(f) == <<SumSeq(f), Len(f)>>

TerminationMetByLast(f) == termination_condition(f[Len(f)])

(* lines 223-225: True in map(termination_condition, population_fitness) *)
TerminationMet(f) == \E j \in 1 .. Len(f) : termination_condition(f[j])

HasNextOffByOne(gen, last) == gen <= last

(* line 195: range(1, max_iter+1) has a value after gen *)
HasNext(gen, last) == gen < last

(* lines 189-192: the call of simulate *)
Simulate ==
    /\ pc = "ready"
    /\ pc' = "loop"
    /\ i' = 0
    /\ best_individual_data' = <<>>
    /\ worst_individual_data' = <<>>
    /\ generation_average_data' = <<>>
    /\ historic_best_individual' = <<>>
    /\ UNCHANGED <<config, population, population_fitness, calls, err, halt,
                   total_fitness, new_population, locals, probe>>

(* lines 195-226 and 166: one pass of the loop body up to the call of
   __reproduce; np.max raises ValueError on an empty vector *)
Generation ==
    /\ pc = "loop"
    /\ HasNext(i, max_iter)
    /\ i' = i + 1
    /\ population_fitness' = Evaluate(population)
    /\ IF Len(population) = 0
       THEN /\ pc' = "raised"
            /\ err' = "ValueError"
            /\ UNCHANGED <<series, halt, total_fitness>>
       ELSE /\ best_individual_data' =
                  Append(best_individual_data, MaxOf(population_fitness'))
            /\ worst_individual_data' =
                  Append(worst_individual_data, MinOf(population_fitness'))
            /\ generation_average_data' =
                  Append(generation_average_data, Average(population_fitness'))
            /\ historic_best_individual' =
                  Append(historic_best_individual, population[ArgMax(population_fitness')])
            /\ err' = err
            /\ IF TerminationMet(population_fitness')
               THEN /\ pc' = "done"
                    /\ halt' = "TerminationMet"
                    /\ total_fitness' = total_fitness
               ELSE /\ pc' = "reproduce"
                    /\ halt' = halt
                    /\ total_fitness' = SumSeq(population_fitness')
    /\ UNCHANGED <<config, population, calls, new_population, locals, probe>>

(* lines 195 and 229-236: the range is exhausted and simulate returns *)
Return ==
    /\ pc = "loop"
    /\ ~HasNext(i, max_iter)
    /\ pc' = "done"
    /\ halt' = "MaxIter"
    /\ UNCHANGED <<config, population, population_fitness, calls, err, i, series,
                   total_fitness, new_population, locals, probe>>

---------------------------------------------------------------------------
(* __produce_offspring: the pieces *)

(* line 98: __reproduce never passes mode, so it is always the default *)
DefaultMode == 0

Abs(x) == IF x < 0 THEN -x ELSE x

RouletteGateAllNonNegative(mode, f) ==
    mode = 0 /\ \A j \in 1 .. Len(f) : f[j] >= 0

(* line 108: roulette when the mode asks for it and the fitness of the
   first member is not negative *)
RouletteGate(mode, f) == mode = 0 /\ f[1] >= 0

(* lines 110-111: np.random.randint(0, total_fitness, 2) draws from
   [0, total_fitness) and raises ValueError when that range is empty *)
RouletteRange(total) == 0 .. total - 1

RECURSIVE RouletteScanKeepsFirstBound(_, _, _, _, _, _, _)
RouletteScanKeepsFirstBound(f, t1, t2, idx, total, p1, p2) ==
    IF idx > Len(f) THEN <<p1, p2>>
    ELSE LET tot == total + Abs(f[idx])
             n1  == IF p1 = 0 /\ tot >= t1 THEN idx ELSE p1
             n2  == IF p2 = 0 /\ tot >= t2 THEN idx ELSE p2
         IN  IF ~(n1 = 0 \/ n2 = 0) THEN <<n1, n2>>
             ELSE RouletteScanKeepsFirstBound(f, t1, t2, idx + 1, tot, n1, n2)

(* lines 112-122: the walk over the population from position idx on, with
   the running total and the two slots as they stand; the result is the
   pair of slots (0 for None) when the loop ends *)
RECURSIVE RouletteScan(_, _, _, _, _, _, _)
RouletteScan(f, t1, t2, idx, total, p1, p2) ==
    IF idx > Len(f) THEN <<p1, p2>>
    ELSE LET tot == total + Abs(f[idx])
             n1  == IF tot >= t1 THEN idx ELSE p1
             n2  == IF tot >= t2 THEN idx ELSE p2
         IN  IF ~(n1 = 0 \/ n2 = 0) THEN <<n1, n2>>
             ELSE RouletteScan(f, t1, t2, idx + 1, tot, n1, n2)

TournamentPassNoFallback(f, m1, m2, p) ==
    IF m1 = 0 THEN <<p, m2>>
    ELSE IF f[p] > f[m1] THEN <<p, m1>>
    ELSE IF m2 # 0 /\ f[p] > f[m2] THEN <<m1, p>>
    ELSE <<m1, m2>>

TournamentPassKeepsWorst(f, m1, m2, p) ==
    IF m1 = 0 THEN <<p, m2>>
    ELSE IF f[p] < f[m1] THEN <<p, m1>>
    ELSE IF m2 = 0 \/ f[p] < f[m2] THEN <<m1, p>>
    ELSE <<m1, m2>>

TournamentPassFirstRunnerUp(f, m1, m2, p) ==
    IF m1 = 0 THEN <<p, m2>>
    ELSE IF f[p] > f[m1] THEN <<p, m1>>
    ELSE IF m2 = 0 THEN <<m1, p>>
    ELSE <<m1, m2>>

(* lines 129-137: one pass of the tournament loop for participant p, from
   the slots <<m1, m2>> to the new slots *)
TournamentPass(f, m1, m2, p) ==
    IF m1 = 0 THEN <<p, m2>>
    ELSE IF f[p] > f[m1] THEN <<p, m1>>
    ELSE IF m2 = 0 \/ f[p] > f[m2] THEN <<m1, p>>
    ELSE <<m1, m2>>

(* lines 125-137: the slots the loop can end with after r participants, each
   an index drawn from [0, pop_size) *)
RECURSIVE SlotsAfter(_, _, _)
SlotsAfter(f, n, r) ==
    IF r = 0 THEN {<<0, 0>>}
    ELSE {TournamentPass(f, s[1], s[2], p) : s \in SlotsAfter(f, n, r - 1), p \in 1 .. n}

(* Python slices s[:b] and s[b:] *)
Take(s, b) == SubSeq(s, 1, IF b < Len(s) THEN b ELSE Len(s))

Drop(s, b) == SubSeq(s, (IF b < Len(s) THEN b ELSE Len(s)) + 1, Len(s))

(* line 145: the values np.random.randint(1, len - 1) may return; the call
   raises ValueError when there is none *)
Breakpoints(len) == 1 .. len - 2

CrossDropsAGene(p1, p2, gen_breakpoint_index, coin) ==
    IF coin THEN Take(p1, gen_breakpoint_index) \o Drop(p2, gen_breakpoint_index + 1)
            ELSE Take(p2, gen_breakpoint_index) \o Drop(p1, gen_breakpoint_index + 1)

(* lines 147-152 *)
Cross(p1, p2, gen_breakpoint_index, coin) ==
    IF coin THEN Take(p1, gen_breakpoint_index) \o Drop(p2, gen_breakpoint_index)
            ELSE Take(p2, gen_breakpoint_index) \o Drop(p1, gen_breakpoint_index)

ChildObjectIsParent(chk, p1, p2) == p1

(* lines 143-152: which list the crossover returns, for parents at the
   indices p1 and p2 of the population: 0 for a list built by the call.
   Slices and + build new lists; viable_crossover returns a new offspring *)
ChildObject(chk, p1, p2) == 0

(* lines 142-152: the children the crossover of two parents may give *)
CrossoverResults(chk, p1, p2) ==
    IF chk THEN {viable_crossover(p1, p2)}
    ELSE {Cross(p1, p2, b, coin) : b \in Breakpoints(Len(p1)), coin \in BOOLEAN}

ShouldMutateAtOrBelow(u, rate) == u <= rate

(* line 156: the gene is replaced when the draw is below the rate *)
ShouldMutate(u, rate) == u < rate

(* lines 157-160: the replacement of gene j of the child as it stands *)
MutatedGene(chk, c, j) == IF chk THEN viable_mutation(c, j) ELSE mutate(c[j])

(* lines 155-160: the loop over the positions j .. len(child), in place;
   hit[j] tells whether the draw made at position j is below the rate *)
RECURSIVE MutateFrom(_, _, _, _)
MutateFrom(chk, hit, c, j) ==
    IF j > Len(c) THEN c
    ELSE MutateFrom(chk, hit,
                    IF hit[j] THEN [c EXCEPT ![j] = MutatedGene(chk, c, j)] ELSE c,
                    j + 1)

(* line 156: the outcomes of the len comparisons; the draw of
   np.random.random() at each position is any of 0 .. Scale-1, independently
   of the others *)
Hits(rate, len) ==
    [1 .. len -> {ShouldMutate(u, rate) : u \in 0 .. Scale - 1}]

(* lines 154-162: the children the mutation loop may return for child c *)
MutationResults(chk, rate, c) ==
    {MutateFrom(chk, hit, c, 1) : hit \in Hits(rate, Len(c))}

(* line 167: how many offspring one call of __reproduce produces *)
OffspringCount(n) == RangeLen(n)

---------------------------------------------------------------------------
(* __reproduce: one offspring per step *)

(* lines 108-140: the pairs of parent slots the selection may end with *)
ParentSlots(f, total, n) ==
    IF RouletteGate(DefaultMode, f)
    THEN {RouletteScan(f, t1, t2, 1, 0, 0, 0) :
              t1 \in RouletteRange(total), t2 \in RouletteRange(total)}
    ELSE SlotsAfter(f, n, TournamentSize)

DeliverIntoPopulation(ch) ==
    IF Len(new_population) + 1 >= OffspringCount(pop_size)
    THEN /\ population' = Append(new_population, ch)
         /\ new_population' = <<>>
         /\ pc' = "loop"
    ELSE /\ population' = [population EXCEPT ![Len(new_population) + 1] = ch]
         /\ new_population' = Append(new_population, ch)
         /\ pc' = "reproduce"

(* lines 167-169: one more offspring for the list being built; the
   population is replaced when the list is complete *)
Deliver(ch) ==
    IF Len(new_population) + 1 >= OffspringCount(pop_size)
    THEN /\ population' = Append(new_population, ch)
         /\ new_population' = <<>>
         /\ pc' = "loop"
    ELSE /\ population' = population
         /\ new_population' = Append(new_population, ch)
         /\ pc' = "reproduce"

Raise(error) ==
    /\ pc' = "raised"
    /\ err' = error
    /\ UNCHANGED <<population, new_population>>

(* lines 98-162, called from line 167: a whole call of __produce_offspring.
   np.random.randint raises ValueError for an empty range (lines 110, 145);
   a parent slot left at None raises TypeError (lines 139-145) *)
ProduceOffspring ==
    /\ pc = "reproduce"
    /\ IF RouletteGate(DefaultMode, population_fitness)
          /\ RouletteRange(total_fitness) = {}
       THEN Raise("ValueError")
       ELSE \E s \in ParentSlots(population_fitness, total_fitness, pop_size) :
               IF s[1] = 0 \/ s[2] = 0
               THEN Raise("TypeError")
               ELSE IF ~check /\ Breakpoints(Len(population[s[1]])) = {}
               THEN Raise("ValueError")
               ELSE \E c \in CrossoverResults(check, population[s[1]], population[s[2]]) :
                       \E ch \in MutationResults(check, mutation_rate, c) :
                          /\ Deliver(ch)
                          /\ err' = err
    /\ UNCHANGED <<config, population_fitness, calls, i, halt, series,
                   total_fitness, locals, probe>>

---------------------------------------------------------------------------
Next ==
    \/ Construct
    \/ Simulate
    \/ Generation
    \/ Return
    \/ ProduceOffspring

Spec == Init /\ [][Next]_vars

---------------------------------------------------------------------------
(* Runs in viable mode with a viable_crossover that breaks the length
   contract: the child it returns lacks the last gene of its parents.  The
   engine uses what line 143 returns as it is. *)

short_viable_crossover(p1, p2) ==
    Take(viable_crossover(p1, p2), Len(p1) - 1)

InitContract ==
    /\ Init
    /\ check

(* lines 98-162 in viable mode, the crossover of line 143 being
   short_viable_crossover *)
ProduceOffspringShort ==
    /\ pc = "reproduce"
    /\ check
    /\ IF RouletteGate(DefaultMode, population_fitness)
          /\ RouletteRange(total_fitness) = {}
       THEN Raise("ValueError")
       ELSE \E s \in ParentSlots(population_fitness, total_fitness, pop_size) :
               IF s[1] = 0 \/ s[2] = 0
               THEN Raise("TypeError")
               ELSE \E ch \in MutationResults(check, mutation_rate,
                                  short_viable_crossover(population[s[1]], population[s[2]])) :
                       /\ Deliver(ch)
                       /\ err' = err
    /\ UNCHANGED <<config, population_fitness, calls, i, halt, series,
                   total_fitness, locals, probe>>

NextContract ==
    \/ Construct
    \/ Simulate
    \/ Generation
    \/ Return
    \/ ProduceOffspringShort

SpecContract == InitContract /\ [][NextContract]_vars

---------------------------------------------------------------------------
(* One call of __produce_offspring, step by step.  It starts where the
   first generation calls __reproduce: the population is the constructor's,
   it has just been evaluated and recorded, and no fitness value ended the
   run.  The steps are the selection (the tournament one participant at a
   time), the crossover and the mutation; the draws of the selection are
   kept in targets, first and drawn. *)

InitOffspring ==
    /\ pop_size \in 1 .. MaxPop
    /\ mutation_rate \in 0 .. Scale
    /\ max_iter = 1
    /\ check \in BOOLEAN
    /\ absent = IF check THEN {} ELSE Members
    /\ indLen \in {len \in Lengths : pop_size * len <= OffspringGenes}
    /\ population \in [1 .. pop_size ->
                          IF UsesViableFactory(check)
                          THEN viable_individual_factory(indLen)
                          ELSE individual_factory(indLen)]
    /\ ~TerminationMet(Evaluate(population))
    /\ population_fitness = Evaluate(population)
    /\ factoryCalls = IF UsesViableFactory(check) THEN 0 ELSE pop_size
    /\ viableFactoryCalls = IF UsesViableFactory(check) THEN pop_size ELSE 0
    /\ pc = "reproduce" /\ err = "" /\ i = 1 /\ halt = ""
    /\ best_individual_data = <<MaxOf(population_fitness)>>
    /\ worst_individual_data = <<MinOf(population_fitness)>>
    /\ generation_average_data = <<Average(population_fitness)>>
    /\ historic_best_individual = <<population[ArgMax(population_fitness)]>>
    /\ total_fitness = SumSeq(population_fitness)
    /\ new_population = <<>>
    /\ NoLocals
    /\ targets = <<>> /\ first = 0 /\ drawn = <<>>

(* lines 108-127: the branch is taken; the roulette draws its two targets
   and walks the population at once *)
Select ==
    /\ pc = "reproduce"
    /\ IF RouletteGate(DefaultMode, population_fitness)
       THEN IF RouletteRange(total_fitness) = {}
            THEN /\ pc' = "raised"
                 /\ err' = "ValueError"
                 /\ UNCHANGED <<locals, targets, drawn>>
            ELSE \E t1 \in RouletteRange(total_fitness), t2 \in RouletteRange(total_fitness) :
                    LET slots == RouletteScan(population_fitness, t1, t2, 1, 0, 0, 0)
                    IN  /\ selMode' = "roulette"
                        /\ parent_1' = slots[1]
                        /\ parent_2' = slots[2]
                        /\ targets' = <<t1, t2>>
                        /\ IF slots[1] = 0 \/ slots[2] = 0
                           THEN pc' = "raised" /\ err' = "TypeError"
                           ELSE pc' = "crossover" /\ err' = err
                        /\ UNCHANGED <<k, max_1, max_2, child, childOf, drawn>>
       ELSE /\ pc' = "tournament"
            /\ err' = err
            /\ selMode' = "tournament"
            /\ k' = 0
            /\ max_1' = 0
            /\ max_2' = 0
            /\ drawn' = [j \in 1 .. pop_size |-> 0]
            /\ UNCHANGED <<parent_1, parent_2, child, childOf, targets>>
    /\ UNCHANGED <<config, population, population_fitness, calls, i, halt, series,
                   total_fitness, new_population, first>>

(* lines 125-140: the loop reads the next of the TournamentSize participants,
   each an index drawn from [0, pop_size); after the last one the two parents
   are looked up (lines 139-140), which raises TypeError for a slot that is
   still None *)
Tournament ==
    /\ pc = "tournament"
    /\ k < TournamentSize
    /\ \E participant \in 1 .. pop_size :
          LET slots == TournamentPass(population_fitness, max_1, max_2, participant)
          IN  /\ k' = k + 1
              /\ max_1' = slots[1]
              /\ max_2' = slots[2]
              /\ first' = IF k = 0 THEN participant ELSE first
              /\ drawn' = [drawn EXCEPT ![participant] = @ + 1]
              /\ IF k + 1 < TournamentSize
                 THEN /\ pc' = "tournament"
                      /\ err' = err
                      /\ UNCHANGED <<parent_1, parent_2>>
                 ELSE IF slots[1] = 0 \/ slots[2] = 0
                      THEN /\ pc' = "raised"
                           /\ err' = "TypeError"
                           /\ UNCHANGED <<parent_1, parent_2>>
                      ELSE /\ pc' = "crossover"
                           /\ err' = err
                           /\ parent_1' = slots[1]
                           /\ parent_2' = slots[2]
    /\ UNCHANGED <<config, population, population_fitness, calls, i, halt, series,
                   total_fitness, new_population, selMode, child, childOf, targets>>

(* lines 142-152 *)
Crossover ==
    /\ pc = "crossover"
    /\ IF ~check /\ Breakpoints(Len(population[parent_1])) = {}
       THEN /\ pc' = "raised"
            /\ err' = "ValueError"
            /\ child' = child
            /\ childOf' = childOf
       ELSE /\ child' \in CrossoverResults(check, population[parent_1], population[parent_2])
            /\ childOf' = ChildObject(check, parent_1, parent_2)
            /\ pc' = "mutate"
            /\ err' = err
    /\ UNCHANGED <<config, population, population_fitness, calls, i, halt, series,
                   total_fitness, new_population, selMode, k, max_1, max_2,
                   parent_1, parent_2, probe>>

(* lines 154-162: the mutation loop, and the return of the child.  The
   loop assigns to the elements of the list named child (lines 158, 160):
   were that list an individual of the population, the individual would
   change with it, and so would the entry of historic_best_individual that
   is the same list (lines 202 and 221 keep the list, not a copy) *)
Mutate ==
    /\ pc = "mutate"
    /\ child' \in MutationResults(check, mutation_rate, child)
    /\ population' = IF childOf = 0 THEN population
                     ELSE [population EXCEPT ![childOf] = child']
    /\ historic_best_individual' =
           IF childOf # 0 /\ childOf = ArgMax(population_fitness)
           THEN [historic_best_individual EXCEPT ![i] = child']
           ELSE historic_best_individual
    /\ pc' = "returned"
    /\ UNCHANGED <<config, population_fitness, calls, err, i, halt,
                   best_individual_data, worst_individual_data,
                   generation_average_data,
                   total_fitness, new_population, selMode, k, max_1, max_2,
                   parent_1, parent_2, childOf, probe>>

NextOffspring ==
    \/ Select
    \/ Tournament
    \/ Crossover
    \/ Mutate

SpecOffspring == InitOffspring /\ [][NextOffspring]_vars

---------------------------------------------------------------------------
(* Properties *)

SeriesLengths ==
    {Len(best_individual_data), Len(worst_individual_data),
     Len(generation_average_data), Len(historic_best_individual)}

(* Some value of the vector satisfies termination_condition *)
SomeValueEnds(f) == \E j \in DOMAIN f : termination_condition(f[j])

(* C1: simulate stops at the first generation k <= max_iter whose freshly
   evaluated fitness vector holds a value satisfying termination_condition:
   no offspring is produced in a generation whose vector holds such a value;
   when the loop is left for that reason the generation counter is at most
   max_iter, the metrics of that generation are recorded, the vector is that
   of the population still in place (it has not been replaced), and no
   earlier generation held such a value; and a run that used up max_iter
   generations never held one.  termination_condition is a threshold, so a
   generation holds such a value exactly when its recorded best does. *)
C1_StopsAtFirstTermination ==
    /\ pc = "reproduce" => ~SomeValueEnds(population_fitness)
    /\ pc = "done" /\ halt = "TerminationMet" =>
          /\ 1 <= i /\ i <= max_iter
          /\ SeriesLengths = {i}
          /\ population_fitness = [j \in 1 .. Len(population) |->
                                      fitness_function(population[j])]
          /\ SomeValueEnds(population_fitness)
          /\ termination_condition(best_individual_data[i])
          /\ new_population = <<>>
          /\ \A g \in 1 .. i - 1 : ~termination_condition(best_individual_data[g])
    /\ pc = "done" /\ halt = "MaxIter" =>
          \A g \in 1 .. Len(best_individual_data) :
              ~termination_condition(best_individual_data[g])

(* C1, witness: the run stopped at generation 2, after one reproduction *)
C1_Witness ==
    /\ pc = "done" /\ halt = "TerminationMet"
    /\ i = 2 /\ max_iter = 2 /\ pop_size = 2

(* C2: after construction and after every reproduction step the population
   has exactly pop_size individuals, each of the length the factory gives *)
C2_PopulationShape ==
    pc \notin {"new", "failed"} =>
        /\ Len(population) = pop_size
        /\ \A j \in 1 .. Len(population) : Len(population[j]) = indLen

(* C2, witness: a population of two that reproduction has just put in place *)
C2_Witness ==
    /\ pc = "loop" /\ i = 1 /\ pop_size = 2 /\ indLen = 3 /\ ~check
    /\ Len(population) = 2

(* C3: with individual_viability_check true and a viability member absent,
   construction fails with an error naming an absent member, before any
   factory is called and with no population built; with the check false it
   never fails, whatever is absent *)
C3_MissingMemberFails ==
    /\ pc # "new" /\ check /\ absent # {} =>
          /\ pc = "failed"
          /\ err \in absent
          /\ factoryCalls = 0 /\ viableFactoryCalls = 0
          /\ population = <<>>
    /\ pc # "new" /\ ~check => pc # "failed"

(* C3, witness: a failed construction naming the first of two absent members *)
C3_Witness ==
    /\ pc = "failed" /\ check
    /\ absent = {"viable_crossover", "viable_individual_factory"}
    /\ err = "viable_crossover"

(* C4: a successful construction has made exactly pop_size calls to
   viable_individual_factory and none to individual_factory when the check
   is true, and the other way round when it is false; the population is what
   those calls returned *)
C4_FactoryCalls ==
    pc = "ready" =>
        /\ Len(population) = pop_size
        /\ IF check
           THEN /\ viableFactoryCalls = pop_size /\ factoryCalls = 0
                /\ \A j \in 1 .. Len(population) :
                       individual_viability_condition(population[j])
           ELSE /\ factoryCalls = pop_size /\ viableFactoryCalls = 0

(* C4, witness: a viable engine of two individuals *)
C4_Witness ==
    /\ pc = "ready" /\ check /\ pop_size = 2
    /\ viableFactoryCalls = 2

(* C5: the four series always have the same length; when simulate returns,
   that length is the generation the loop stopped at, which is max_iter when
   the termination condition was never met *)
C5_SeriesLengths ==
    /\ Cardinality(SeriesLengths) = 1
    /\ pc \in {"reproduce", "done"} => SeriesLengths = {i}
    /\ pc = "done" /\ halt = "MaxIter" => SeriesLengths = {max_iter}

(* C5, witness: a run of two generations that used up max_iter *)
C5_Witness ==
    /\ pc = "done" /\ halt = "MaxIter" /\ max_iter = 2
    /\ Len(historic_best_individual) = 2

(* C6: the mutation loop with mutation_rate 0 returns the crossover result
   unchanged; with mutation_rate 1 (Scale) it replaces every gene by the
   output of the mutation function, mutate(gene) in non-viable mode and
   viable_mutation(child, index) on the child as it stands at that index in
   viable mode, whatever the draws *)
C6_MutationRateExtremes ==
    [][pc = "mutate" /\ pc' = "returned" =>
          /\ Len(child') = Len(child)
          /\ mutation_rate = 0 => child' = child
          /\ mutation_rate = Scale =>
                \A j \in 1 .. Len(child) :
                    child'[j] =
                        IF check
                        THEN viable_mutation(
                                 [m \in 1 .. Len(child) |->
                                     IF m < j THEN child'[m] ELSE child[m]], j)
                        ELSE mutate(child[j])]_vars

(* C6, witness: a child returned by the mutation loop at rate 1, every gene
   of it replaced *)
C6_Witness ==
    /\ pc = "returned" /\ mutation_rate = Scale /\ ~check
    /\ Len(child) = 4
    /\ \E b \in Breakpoints(4), coin \in BOOLEAN :
          child = [j \in 1 .. 4 |->
                      mutate(Cross(population[parent_1], population[parent_2], b, coin)[j])]

UniqueMax(f, m) == \A j \in DOMAIN f : j # m => f[j] < f[m]

(* C7: when the tournament is over, an individual whose fitness is the
   unique maximum of the population and whose index was drawn at least once
   is one of the two parents *)
C7_UniqueMaxIsParent ==
    pc = "crossover" /\ selMode = "tournament" =>
        \A m \in 1 .. pop_size :
            UniqueMax(population_fitness, m) /\ drawn[m] > 0 =>
                parent_1 = m \/ parent_2 = m

(* C7, witness: the unique maximum was drawn, not first, and is a parent *)
C7_Witness ==
    /\ pc = "crossover" /\ selMode = "tournament" /\ pop_size = 2
    /\ \E m \in 1 .. pop_size :
          /\ UniqueMax(population_fitness, m)
          /\ drawn[m] > 0 /\ first # m
          /\ parent_1 = m

(* C8: the tournament never ends with a slot undefined: from the second
   participant on the runner-up slot is set, the lookup of the parents never
   raises, and both parents are indices of the population *)
C8_RunnerUpDefined ==
    /\ pc = "tournament" /\ k >= 1 => max_1 \in 1 .. pop_size
    /\ pc = "tournament" /\ k >= 2 => max_2 \in 1 .. pop_size
    /\ selMode = "tournament" => ~(pc = "raised" /\ err = "TypeError")
    /\ pc = "crossover" /\ selMode = "tournament" =>
          parent_1 \in 1 .. pop_size /\ parent_2 \in 1 .. pop_size

(* C8, witness: only the first participant was the unique maximum, and the
   tournament ended with both parents set *)
C8_Witness ==
    /\ pc = "crossover" /\ selMode = "tournament" /\ pop_size = 2
    /\ UniqueMax(population_fitness, first)
    /\ drawn[first] = 1
    /\ parent_1 = first /\ parent_2 \in 1 .. pop_size /\ parent_2 # first

(* C9, as claimed: when the roulette is chosen and the fitness sum leaves
   the draw range [0, total_fitness) empty, parents are still chosen and the
   step completes without an error *)
C9_RouletteFallback ==
    ~(/\ pc = "raised"
      /\ population_fitness # <<>>
      /\ population_fitness[1] >= 0
      /\ total_fitness <= 0)

(* C10, as claimed: no engine is constructed with pop_size < 1 or with
   mutation_rate outside [0, 1] *)
C10_ParametersValidated ==
    pc = "ready" => pop_size >= 1 /\ 0 <= mutation_rate /\ mutation_rate <= Scale

(* C11, as claimed: when a collaborator breaks the length contract the
   engine detects it and halts: an individual whose length differs from that
   of the initial individuals never enters the population, nor the list of
   offspring that replaces it *)
C11_LengthMismatchDetected ==
    /\ \A j \in 1 .. Len(population) : Len(population[j]) = indLen
    /\ \A j \in 1 .. Len(new_population) : Len(new_population[j]) = indLen

(* C12, as claimed: the end-to-end scenario at the scale of the model
   (non-viable mode, mutation_rate 0, a full population whose fitness values
   are all positive, termination_condition met only by the best individual
   there is, all of max_iter generations allowed): every run of simulate ends
   with a recorded generation whose best fitness satisfies
   termination_condition *)
C12_ScenarioReachesThreshold ==
    /\ pc = "done" /\ ~check /\ mutation_rate = 0
    /\ pop_size = 2 /\ indLen = 3 /\ max_iter = MaxIter
    /\ \A g \in 1 .. Len(worst_individual_data) : worst_individual_data[g] > 0
    => \E g \in 1 .. Len(best_individual_data) :
           termination_condition(best_individual_data[g])

(* The sum of the absolute values of the first n fitness values *)
RECURSIVE CumAbs(_, _)
CumAbs(f, n) == IF n = 0 THEN 0 ELSE CumAbs(f, n - 1) + Abs(f[n])

(* The first index, in population order, at which that sum reaches or
   exceeds the target; 0 when it never does *)
FirstReach(f, target) ==
    IF \E j \in 1 .. Len(f) : CumAbs(f, j) >= target
    THEN CHOOSE j \in 1 .. Len(f) :
             /\ CumAbs(f, j) >= target
             /\ \A m \in 1 .. j - 1 : CumAbs(f, m) < target
    ELSE 0

(* C13, as claimed: after a roulette selection each parent slot holds the
   first individual, in population order, whose cumulative absolute fitness
   reaches or exceeds that slot's own target, so that two targets first
   reached at different indices give two different parents *)
C13_RouletteSlotPerTarget ==
    pc = "crossover" /\ selMode = "roulette" =>
        /\ parent_1 = FirstReach(population_fitness, targets[1])
        /\ parent_2 = FirstReach(population_fitness, targets[2])

(* C14, as claimed: in non-viable mode, for parents of any length len >= 2
   the crossover never fails, and the child it gives has length len and is
   parent1[0:b] + parent2[b:] or parent2[0:b] + parent1[b:] for a breakpoint
   b with 1 <= b < len - 1 *)
C14_CrossoverDefinedFromTwoGenes ==
    ~check /\ indLen >= 2 /\ selMode # "none" =>
        /\ ~(pc = "raised" /\ err = "ValueError")
        /\ pc = "mutate" =>
              /\ Len(child) = indLen
              /\ \E b \in 1 .. indLen - 2 :
                    \/ child = SubSeq(population[parent_1], 1, b)
                                 \o SubSeq(population[parent_2], b + 1, indLen)
                    \/ child = SubSeq(population[parent_2], 1, b)
                                 \o SubSeq(population[parent_1], b + 1, indLen)

(* C15: at every parent selection of simulate the fitness vector has length
   pop_size and its entries are fitness_function of the individuals of the
   population selected from, in order: the evaluation of the generation came
   first, and the offspring produced so far are kept apart, fewer than
   pop_size of them, the population being replaced only by the complete
   list *)
C15_FitnessOfCurrentPopulation ==
    /\ pc = "reproduce" =>
          /\ Len(population_fitness) = pop_size
          /\ Len(population) = pop_size
          /\ \A j \in 1 .. pop_size :
                 population_fitness[j] = fitness_function(population[j])
          /\ Len(new_population) < pop_size
    /\ pc # "reproduce" => new_population = <<>>

(* C15, witness: the second generation is selecting its second pair of
   parents, its first offspring being no member of the population *)
C15_Witness ==
    /\ pc = "reproduce" /\ i = 2 /\ pop_size = 2
    /\ Len(new_population) = 1
    /\ \A j \in 1 .. pop_size :
           fitness_function(new_population[1]) # population_fitness[j]

(* The fitness values of the participants drawn so far, the highest of
   them, and how many participants have a given value *)
SampledValues == {population_fitness[j] : j \in {m \in DOMAIN drawn : drawn[m] > 0}}

SampledMax == CHOOSE v \in SampledValues : \A w \in SampledValues : w <= v

RECURSIVE DrawnWith(_, _)
DrawnWith(v, n) ==
    IF n = 0 THEN 0
    ELSE DrawnWith(v, n - 1) + (IF population_fitness[n] = v THEN drawn[n] ELSE 0)

(* The second-highest value of the multiset of sampled values *)
SampledSecond ==
    IF DrawnWith(SampledMax, Len(drawn)) >= 2 THEN SampledMax
    ELSE CHOOSE v \in SampledValues \ {SampledMax} :
             \A w \in SampledValues \ {SampledMax} : w <= v

(* C16: when the tournament is over, the fitness of parent 1 is the maximum
   of the 8 sampled fitness values and the fitness of parent 2 is the
   second-highest value of that multiset, which is the maximum when the
   maximum was sampled more than once *)
C16_BestTwoOfEight ==
    pc = "crossover" /\ selMode = "tournament" =>
        /\ population_fitness[parent_1] = SampledMax
        /\ population_fitness[parent_2] = SampledSecond

(* C16, witness: the maximum was sampled once, after a lower value, and the
   runner-up has the lower value *)
C16_Witness ==
    /\ pc = "crossover" /\ selMode = "tournament"
    /\ DrawnWith(SampledMax, Len(drawn)) = 1
    /\ population_fitness[first] < SampledMax
    /\ population_fitness[parent_1] = SampledMax
    /\ population_fitness[parent_2] = SampledSecond
    /\ SampledSecond < SampledMax

(* C17: an offspring is produced by the roulette when the fitness of the
   first member of the population is not negative and by the tournament when
   it is negative, whatever the sign of the other fitness values.  Once the
   selection has started, the roulette is the branch taken (its scan has
   run, or its draw raised ValueError before any parent was chosen) exactly
   when that fitness is not negative *)
C17_GateOnFirstMember ==
    /\ selMode = "roulette" => population_fitness[1] >= 0
    /\ selMode = "tournament" => population_fitness[1] < 0
    /\ pc # "reproduce" /\ selMode = "none" =>
          pc = "raised" /\ err = "ValueError" /\ population_fitness[1] >= 0
    /\ pc # "reproduce" /\ population_fitness[1] < 0 => selMode = "tournament"

(* C17, witness: the tournament has chosen the parents of a population
   whose first member has a negative fitness and another member a positive
   one *)
C17_Witness ==
    /\ pc = "crossover" /\ selMode = "tournament"
    /\ population_fitness[1] < 0
    /\ \E j \in 2 .. pop_size : population_fitness[j] > 0

LargerTarget == IF targets[1] >= targets[2] THEN targets[1] ELSE targets[2]

(* C18: a roulette selection with total_fitness > 0 ends with both parent
   slots bound (the lookup never meets None), and bound to the same
   individual: the one at the first index where the cumulative absolute
   fitness reaches the larger of the two targets; in non-viable mode the
   crossover of such a selection then gives a copy of that individual *)
C18_RouletteSingleParent ==
    selMode = "roulette" /\ total_fitness > 0 =>
        /\ ~(pc = "raised" /\ err = "TypeError")
        /\ parent_1 \in 1 .. pop_size
        /\ parent_2 = parent_1
        /\ parent_1 = FirstReach(population_fitness, LargerTarget)
        /\ pc = "mutate" /\ ~check => child = population[parent_1]

(* C18, witness: two targets first reached at different indices, both
   parents the individual of the larger one, and the child a copy of it *)
C18_Witness ==
    /\ pc = "mutate" /\ selMode = "roulette" /\ ~check
    /\ FirstReach(population_fitness, targets[1])
          # FirstReach(population_fitness, targets[2])
    /\ parent_1 = parent_2
    /\ child = population[parent_1]

(* C19: in non-viable mode no step of the production of an offspring
   (selection, crossover, mutation of the child in place) changes an
   individual of the current population, the fitness vector, or an individual
   recorded in historic_best_individual *)
C19_OffspringLeavesPopulation ==
    [][~check =>
          /\ population' = population
          /\ population_fitness' = population_fitness
          /\ historic_best_individual' = historic_best_individual]_vars

(* C19, witness: a child returned in non-viable mode with every gene
   replaced by the mutation, while its parent is as it was evaluated *)
C19_Witness ==
    /\ pc = "returned" /\ ~check /\ mutation_rate = Scale
    /\ childOf = 0
    /\ parent_1 = parent_2
    /\ \A j \in 1 .. Len(child) : child[j] = mutate(population[parent_1][j])
    /\ population_fitness[parent_1] = fitness_function(population[parent_1])
    /\ historic_best_individual[1] = population[ArgMax(population_fitness)]

===========================================================================
